---- MODULE Spec2Model ----
(***************************************************************************)
(* Model of cooling_block.py: a linear script that derives hole            *)
(* coordinates and fin dimensions from numeric parameters, loads optional  *)
(* reference STEP files, builds solids through the CAD kernel, assembles   *)
(* them and exports STEP files.                                            *)
(*                                                                         *)
(* Numbers of the script are Python floats (IEEE 754 binary64).  They are  *)
(* modelled bit-exactly: a float is a sign, an odd natural significand     *)
(* (an arbitrary-precision natural held as base-2^15 limbs) and a binary   *)
(* exponent, and every arithmetic operator rounds to nearest, ties to      *)
(* even, at 53 significant bits.  Python ints of the script are small and  *)
(* are the floats with an integral value.                                  *)
(***************************************************************************)
EXTENDS Integers, Sequences, FiniteSets, TLC

(***************************************************************************)
(* Arbitrary-precision naturals: little-endian sequences of limbs below    *)
(* Base, without a zero top limb; << >> is zero.                           *)
(***************************************************************************)
LimbBits == 15
Base == 2^LimbBits

Limb(a, i) == IF i <= Len(a) THEN a[i] ELSE 0

RECURSIVE Trim(_)
Trim(a) ==
    IF a = << >> THEN a
    ELSE IF a[Len(a)] = 0 THEN Trim(SubSeq(a, 1, Len(a) - 1)) ELSE a

RECURSIVE FromNat(_)
FromNat(n) == IF n = 0 THEN << >> ELSE <<n % Base>> \o FromNat(n \div Base)

RECURSIVE ToNat(_)
ToNat(a) == IF a = << >> THEN 0 ELSE a[1] + Base * ToNat(Tail(a))

RECURSIVE BAddFrom(_, _, _, _)
BAddFrom(a, b, i, c) ==
    IF i > Len(a) /\ i > Len(b)
    THEN (IF c = 0 THEN << >> ELSE <<c>>)
    ELSE LET s == Limb(a, i) + Limb(b, i) + c
         IN  <<s % Base>> \o BAddFrom(a, b, i + 1, s \div Base)

BAdd(a, b) == BAddFrom(a, b, 1, 0)

\* a - b for a >= b
RECURSIVE BSubFrom(_, _, _, _)
BSubFrom(a, b, i, c) ==
    IF i > Len(a) THEN << >>
    ELSE LET s == Limb(a, i) - Limb(b, i) - c
         IN  IF s < 0 THEN <<s + Base>> \o BSubFrom(a, b, i + 1, 1)
             ELSE <<s>> \o BSubFrom(a, b, i + 1, 0)

BSub(a, b) == Trim(BSubFrom(a, b, 1, 0))

RECURSIVE BGeqFrom(_, _, _)
BGeqFrom(a, b, i) ==
    IF i = 0 THEN TRUE
    ELSE IF a[i] # b[i] THEN a[i] > b[i] ELSE BGeqFrom(a, b, i - 1)

BGeq(a, b) ==
    IF Len(a) # Len(b) THEN Len(a) > Len(b) ELSE BGeqFrom(a, b, Len(a))

\* a * k for a limb-sized k
RECURSIVE BMulSmallFrom(_, _, _, _)
BMulSmallFrom(a, k, i, c) ==
    IF i > Len(a) THEN (IF c = 0 THEN << >> ELSE <<c>>)
    ELSE LET s == a[i] * k + c
         IN  <<s % Base>> \o BMulSmallFrom(a, k, i + 1, s \div Base)

BMulSmall(a, k) == IF k = 0 THEN << >> ELSE BMulSmallFrom(a, k, 1, 0)

ZeroLimbs(n) == [i \in 1..n |-> 0]

ShiftLimbs(p, n) == IF p = << >> THEN p ELSE ZeroLimbs(n) \o p

RECURSIVE BMulFrom(_, _, _)
BMulFrom(a, b, i) ==
    IF i > Len(b) THEN << >>
    ELSE BAdd(ShiftLimbs(BMulSmall(a, b[i]), i - 1), BMulFrom(a, b, i + 1))

BMul(a, b) == BMulFrom(a, b, 1)

\* a * 2^k
BShl(a, k) ==
    IF a = << >> THEN a
    ELSE ZeroLimbs(k \div LimbBits) \o BMulSmall(a, 2^(k % LimbBits))

\* a \div 2^k
BShr(a, k) ==
    LET q == k \div LimbBits
        r == k % LimbBits
        n == Len(a) - q
    IN  IF n <= 0 THEN << >>
        ELSE Trim([i \in 1..n |->
                 (a[i + q] \div 2^r) + (Limb(a, i + q + 1) % 2^r) * 2^(LimbBits - r)])

RECURSIVE NatBitLen(_)
NatBitLen(n) == IF n = 0 THEN 0 ELSE 1 + NatBitLen(n \div 2)

BBitLen(a) ==
    IF a = << >> THEN 0 ELSE LimbBits * (Len(a) - 1) + NatBitLen(a[Len(a)])

\* bit i of a, bit 0 the lowest
BBit(a, i) == (Limb(a, (i \div LimbBits) + 1) \div 2^(i % LimbBits)) % 2

\* are the k lowest bits of a all zero
BLowZero(a, k) == BShl(BShr(a, k), k) = a

\* <<quotient limbs (untrimmed), remainder>> of a by a limb-sized k, from
\* the top limb down
DivPair(q, rest) == <<Append(rest[1], q), rest[2]>>

RECURSIVE BDivSmallFrom(_, _, _, _)
BDivSmallFrom(a, k, i, r) ==
    IF i = 0 THEN <<<< >>, r>>
    ELSE DivPair((r * Base + a[i]) \div k,
                 BDivSmallFrom(a, k, i - 1, (r * Base + a[i]) % k))

TrimPair(qr) == <<Trim(qr[1]), FromNat(qr[2])>>

\* <<quotient, remainder>> of a by d, for d > 0 of one limb: the script
\* divides by small integers and by sums of its gap parameters only
BDivMod(a, d) ==
    CASE Len(d) = 1 -> TrimPair(BDivSmallFrom(a, d[1], Len(a), 0))

RECURSIVE BTrailingZeros(_)
BTrailingZeros(a) ==
    IF a = << >> THEN 0
    ELSE IF a[1] = 0 THEN LimbBits + BTrailingZeros(Tail(a))
    ELSE IF a[1] % 2 = 0 THEN 1 + BTrailingZeros(<<a[1] \div 2>>)
    ELSE 0

(***************************************************************************)
(* Floats.  [neg, m, e] is (-1)^neg * m * 2^e with m odd; zero is FZero.   *)
(* The canonical form makes equal values equal records.  The exponent      *)
(* range is not bounded: the script's values stay far from overflow and    *)
(* underflow.                                                              *)
(***************************************************************************)
MantBits == 53

FZero == [neg |-> FALSE, m |-> << >>, e |-> 0]

CanonShift(neg, m, e, tz) == [neg |-> neg, m |-> BShr(m, tz), e |-> e + tz]

Canon(neg, m, e) ==
    IF m = << >> THEN FZero ELSE CanonShift(neg, m, e, BTrailingZeros(m))

\* kept: the MantBits bits that stay; guard: the first bit dropped; rest:
\* whether anything lies below it
RoundKept(neg, kept, e, guard, rest) ==
    Canon(neg,
          IF guard = 1 /\ (rest \/ BBit(kept, 0) = 1) THEN BAdd(kept, <<1>>) ELSE kept,
          e)

RoundCut(neg, m, e, sticky, k) ==
    RoundKept(neg, BShr(m, k), e + k, BBit(m, k - 1), sticky \/ ~BLowZero(m, k - 1))

\* round m * 2^e (plus a positive fraction of its last bit when sticky) to
\* MantBits significant bits, to nearest, ties to even
Round(neg, m, e, sticky) ==
    IF BBitLen(m) <= MantBits THEN Canon(neg, m, e)
    ELSE RoundCut(neg, m, e, sticky, BBitLen(m) - MantBits)

FInt(n) == IF n < 0 THEN Canon(TRUE, FromNat(-n), 0) ELSE Canon(FALSE, FromNat(n), 0)

FNeg(x) == IF x.m = << >> THEN x ELSE [x EXCEPT !.neg = ~x.neg]

MinInt(i, j) == IF i < j THEN i ELSE j

\* the sum of (-1)^xneg * a and (-1)^yneg * b: its sign and its magnitude
SumNeg(xneg, yneg, a, b) == IF xneg = yneg \/ BGeq(a, b) THEN xneg ELSE yneg

SumMag(xneg, yneg, a, b) ==
    IF xneg = yneg THEN BAdd(a, b)
    ELSE IF BGeq(a, b) THEN BSub(a, b) ELSE BSub(b, a)

FAddAligned(xneg, yneg, a, b, e0) ==
    Round(SumNeg(xneg, yneg, a, b), SumMag(xneg, yneg, a, b), e0, FALSE)

FAddAt(x, y, e0) ==
    FAddAligned(x.neg, y.neg, BShl(x.m, x.e - e0), BShl(y.m, y.e - e0), e0)

FAdd(x, y) == FAddAt(x, y, MinInt(x.e, y.e))

FSub(x, y) == FAdd(x, FNeg(y))

FMul(x, y) == Round(x.neg # y.neg, BMul(x.m, y.m), x.e + y.e, FALSE)

FDivRound(neg, qr, e) == Round(neg, qr[1], e, qr[2] # << >>)

FDivShifted(x, y, s) ==
    FDivRound(x.neg # y.neg, BDivMod(BShl(x.m, s), y.m), x.e - y.e - s)

PosPart(d) == IF d > 0 THEN d ELSE 0

\* x / y for y # 0: a quotient of at least MantBits + 2 bits, the remainder sticky
FDiv(x, y) ==
    IF x.m = << >> THEN FZero
    ELSE FDivShifted(x, y, PosPart(MantBits + 2 + BBitLen(y.m) - BBitLen(x.m)))

FLt(x, y) == FSub(x, y).neg

FIsZero(x) == x.m = << >>

FLeq(x, y) == ~FLt(y, x)

FAbs(x) == [x EXCEPT !.neg = FALSE]

\* int(x): truncation toward zero
FTrunc(x) ==
    IF x.e >= 0 THEN (IF x.neg THEN -1 ELSE 1) * ToNat(BShl(x.m, x.e))
    ELSE (IF x.neg THEN -1 ELSE 1) * ToNat(BShr(x.m, -x.e))

\* the float a decimal literal num/den denotes
FLit(num, den) == FDiv(FInt(num), FInt(den))

(***************************************************************************)
(* Parameters of the script that the model holds fixed.                    *)
(***************************************************************************)
extrusion_w == 20
pt_hole_footprint_offset == 4
oring_inner_edge_gap == 7
oring_outer_edge_gap == 4
oring_groove_w == FLit(457, 100)
extrusion_screw_clearance_r == FDiv(FLit(55, 10), FInt(2))
cs_screw_clearance_r == extrusion_screw_clearance_r

(***************************************************************************)
(* The LED screw grid.                                                     *)
(***************************************************************************)
led_repeat_footprint(size, count) == FDiv(size, FInt(count))

\* [-block_l / 2 + x * led_repeat_footprint_l for x in range(1, led_array_cols)]
led_x_from(bl, cols, f) ==
    [x \in 1..(cols - 1) |-> FAdd(FDiv(FNeg(bl), FInt(2)), FMul(FInt(x), f))]

led_screw_centers_along_x_axis(bl, cols) ==
    led_x_from(bl, cols, led_repeat_footprint(bl, cols))

\* the y list without its half footprint
led_y_from_without_half(bw, rows, f) ==
    [i \in 1..rows |-> FAdd(FDiv(FNeg(bw), FInt(2)), FMul(FInt(i - 1), f))]

\* [-block_w / 2 + y * led_repeat_footprint_w + (led_repeat_footprint_w / 2)
\*  for y in range(0, led_array_rows)]
led_y_from(bw, rows, f) ==
    [i \in 1..rows |->
        FAdd(FAdd(FDiv(FNeg(bw), FInt(2)), FMul(FInt(i - 1), f)), FDiv(f, FInt(2)))]

led_screw_centers_along_y_axis(bw, rows) ==
    led_y_from(bw, rows, led_repeat_footprint(bw, rows))

(***************************************************************************)
(* Wire pass-through holes and the cuts that turn them into U shapes.  The *)
(* two pairs of loops differ in the y coordinate only: dy is               *)
(* pt_hole_footprint_offset for the holes and pt_u_y / 2 for the cuts.     *)
(***************************************************************************)
\* for x in range(0, led_array_cols)
pt_top_from(bl, bw, cols, dy, f) ==
    [i \in 1..cols |->
        << FAdd(FAdd(FDiv(FNeg(bl), FInt(2)), FMul(FInt(i - 1), f)),
                FInt(pt_hole_footprint_offset)),
           FSub(FDiv(bw, FInt(2)), dy) >>]

pt_x_centers_along_top(bl, bw, cols, dy) ==
    pt_top_from(bl, bw, cols, dy, led_repeat_footprint(bl, cols))

\* the bottom row with the offset added, as in the top row
pt_bottom_from_offset_added(bl, bw, cols, dy, f) ==
    [x \in 1..cols |->
        << FAdd(FAdd(FDiv(FNeg(bl), FInt(2)), FMul(FInt(x), f)),
                FInt(pt_hole_footprint_offset)),
           FAdd(FDiv(FNeg(bw), FInt(2)), dy) >>]

\* for x in range(1, led_array_cols + 1)
pt_bottom_from(bl, bw, cols, dy, f) ==
    [x \in 1..cols |->
        << FSub(FAdd(FDiv(FNeg(bl), FInt(2)), FMul(FInt(x), f)),
                FInt(pt_hole_footprint_offset)),
           FAdd(FDiv(FNeg(bw), FInt(2)), dy) >>]

pt_x_centers_along_bottom(bl, bw, cols, dy) ==
    pt_bottom_from(bl, bw, cols, dy, led_repeat_footprint(bl, cols))

pt_u_y == pt_hole_footprint_offset

pt_hole_dy == FInt(pt_hole_footprint_offset)

pt_u_dy == FDiv(FInt(pt_u_y), FInt(2))

(***************************************************************************)
(* Countersink screw holes fixing the lid to the block.                    *)
(***************************************************************************)
\* math.floor(led_array_cols / 2)
cs_number(count) == count \div 2

\* cs_centers_along_*_axis_1: from the low edge upwards, cs_delta = 2 * f
cs_centers_1_from(size, count, f) ==
    [i \in 1..cs_number(count) |->
        FAdd(FAdd(FAdd(FDiv(FNeg(size), FInt(2)), FInt(pt_hole_footprint_offset)),
                  FMul(FInt(i - 1), FMul(FInt(2), f))),
             FDiv(FMul(FInt(3), f), FInt(2)))]

cs_centers_1(size, count) ==
    cs_centers_1_from(size, count, led_repeat_footprint(size, count))

\* cs_centers_along_*_axis_2: from the high edge downwards
cs_centers_2_from(size, count, f) ==
    [i \in 1..cs_number(count) |->
        FSub(FSub(FSub(FDiv(size, FInt(2)), FInt(pt_hole_footprint_offset)),
                  FMul(FInt(i - 1), FMul(FInt(2), f))),
             FDiv(FMul(FInt(3), f), FInt(2)))]

cs_centers_2(size, count) ==
    cs_centers_2_from(size, count, led_repeat_footprint(size, count))

\* cs_holes1 + cs_holes2 + cs_holes3 + cs_holes4
cs_holes_from(x1, x2, y1, y2, xEdge, yEdge) ==
    [i \in 1..Len(x1) |-> <<x1[i], yEdge>>]
      \o [i \in 1..Len(x2) |-> <<x2[i], FNeg(yEdge)>>]
      \o [i \in 1..Len(y1) |-> <<FNeg(xEdge), y1[i]>>]
      \o [i \in 1..Len(y2) |-> <<xEdge, y2[i]>>]

cs_holes_of(bl, bw, cols, rows) ==
    cs_holes_from(cs_centers_1(bl, cols), cs_centers_2(bl, cols),
                  cs_centers_1(bw, rows), cs_centers_2(bw, rows),
                  FDiv(FSub(bl, FInt(extrusion_w)), FInt(2)),
                  FDiv(FSub(bw, FInt(extrusion_w)), FInt(2)))

(***************************************************************************)
(* O-ring and heat sink dimensions.                                        *)
(***************************************************************************)
oring_inner(size) ==
    FSub(FSub(FSub(FSub(size, FInt(extrusion_w)),
                   FMul(FInt(2), cs_screw_clearance_r)),
              FInt(2 * oring_outer_edge_gap)),
         FMul(FInt(2), oring_groove_w))

heatsink_cut_l_of(oil, oiw) == FSub(oil, FInt(2 * oring_inner_edge_gap))

\* the script takes oring_inner_l here too
heatsink_cut_w_of(oil, oiw) == FSub(oil, FInt(2 * oring_inner_edge_gap))

\* int((heatsink_cut_w - fin_gap) / (approx_fin_t + fin_gap))
fin_number_estimate(w, gap, approx) == FTrunc(FDiv(FSub(w, gap), FAdd(approx, gap)))

\* the adjustment adding 2, which keeps an even count even
odd_adjust_by_two(n) == IF n % 2 = 0 THEN n + 2 ELSE n

\* if fin_number % 2 == 0: fin_number += 1
\* the adjustment leaving a zero count alone
odd_adjust_unless_zero(n) == IF n # 0 /\ n % 2 = 0 THEN n + 1 ELSE n

odd_adjust(n) == IF n % 2 = 0 THEN n + 1 ELSE n

\* (heatsink_cut_w - (fin_number + 1) * fin_gap) / fin_number
fin_t_of(w, gap, n) == FDiv(FSub(w, FMul(FInt(n + 1), gap)), FInt(n))

\* if fin_t < 1: raise ValueError
\* a guard that rejects negative thicknesses only
fin_t_rejected_when_negative(t) == FLt(t, FInt(0))

fin_t_rejected(t) == FLt(t, FInt(1))

fin_l_of(cutl, gap, t) == FSub(FSub(cutl, FMul(FInt(2), gap)), t)

\* lines 262-265, fin_t assigned
fins_from_t(cutl, cutw, gap, n, t) ==
    IF fin_t_rejected(t)
    THEN [cut_l |-> cutl, cut_w |-> cutw, fin_number |-> n, fin_t |-> t,
          fin_l |-> FZero, assigned |-> {"fin_number", "fin_t"},
          error |-> "ValueError: fin thickness"]
    ELSE [cut_l |-> cutl, cut_w |-> cutw, fin_number |-> n, fin_t |-> t,
          fin_l |-> fin_l_of(cutl, gap, t),
          assigned |-> {"fin_number", "fin_t", "fin_l"}, error |-> "none"]

\* line 261, fin_number assigned: a zero fin_number cannot be divided by
fins_from_number(cutl, cutw, gap, n) ==
    IF n = 0
    THEN [cut_l |-> cutl, cut_w |-> cutw, fin_number |-> n, fin_t |-> FZero,
          fin_l |-> FZero, assigned |-> {"fin_number"},
          error |-> "ZeroDivisionError"]
    ELSE fins_from_t(cutl, cutw, gap, n, fin_t_of(cutw, gap, n))

\* lines 256-260: approx_fin_t + fin_gap cannot be divided by when zero
fins_from_cut(cutl, cutw, gap, approx) ==
    IF FIsZero(FAdd(approx, gap))
    THEN [cut_l |-> cutl, cut_w |-> cutw, fin_number |-> 0, fin_t |-> FZero,
          fin_l |-> FZero, assigned |-> {}, error |-> "ZeroDivisionError"]
    ELSE fins_from_number(cutl, cutw, gap,
                          odd_adjust(fin_number_estimate(cutw, gap, approx)))

fins_from_oring(oil, oiw, gap, approx) ==
    fins_from_cut(heatsink_cut_l_of(oil, oiw), heatsink_cut_w_of(oil, oiw), gap, approx)

\* lines 237-265
fin_statements(bl, bw, gap, approx) ==
    fins_from_oring(oring_inner(bl), oring_inner(bw), gap, approx)

(***************************************************************************)
(* heatsink_cutout: the guard, then the kernel calls that build the        *)
(* serpentine channel.  The result records whether it raised, how many     *)
(* kernel calls it had made by then, and the total width of the cut.       *)
(***************************************************************************)
\* the guard looking at positive counts only
cutout_rejected_when_positive(n) == n > 0 /\ n % 2 = 0

\* if fin_number % 2 == 0: raise ValueError
cutout_rejected(n) == n % 2 = 0

\* kernel calls made before the guard is evaluated
calls_before_guard == 0

\* for x in range(1, fin_number - 1)
channel_loop_count(n) == IF n - 2 > 0 THEN n - 2 ELSE 0

\* box/translate/rotate/union/fillet/extrude calls of a full run of the body
cutout_kernel_calls(n) == 33 + 2 * channel_loop_count(n)

\* the width without the gap after the last fin
cutout_width_without_last_gap(n, gap, t) == FMul(FInt(n), FAdd(gap, t))

cutout_width(n, gap, t) == FAdd(FMul(FInt(n), FAdd(gap, t)), gap)

heatsink_cutout(gap, t, n) ==
    IF cutout_rejected(n)
    THEN [called |-> TRUE, fin_number |-> n, raised |-> TRUE,
          kernel_calls |-> calls_before_guard, width |-> FZero]
    ELSE [called |-> TRUE, fin_number |-> n, raised |-> FALSE,
          kernel_calls |-> cutout_kernel_calls(n),
          width |-> cutout_width(n, gap, t)]

\* before any call
NoCutout ==
    [called |-> FALSE, fin_number |-> 0, raised |-> FALSE, kernel_calls |-> 0,
     width |-> FZero]

(***************************************************************************)
(* State.                                                                  *)
(*   parameters: block_l, block_w, led_array_cols, fin_gap, approx_fin_t   *)
(*   environment: build_dir ("absent", "dir" or "file": what the path      *)
(*     build is), ref_dir (ref/ is a directory), show_object (the name is  *)
(*     in the script's namespace)                                          *)
(*   script, pc: the statements being run and the index of the next one    *)
(*   defined: the names assigned so far, among those a later statement     *)
(*     may find missing                                                    *)
(*   error: the exception that ended the run, or "none"                    *)
(***************************************************************************)
VARIABLES block_l, block_w, led_array_cols, fin_gap, approx_fin_t,
          build_dir, ref_dir, show_object, script, pc, defined, error,
          led_x, led_y, pt_hole_centers, pt_u_centers, cs_holes,
          heatsink_cut_l, heatsink_cut_w, fin_number, fin_t, fin_l, cutout,
          warnings, imports, solids, assembly, shown, files

params == <<block_l, block_w, led_array_cols, fin_gap, approx_fin_t>>
env == <<ref_dir, show_object, script>>
grid == <<led_x, led_y, pt_hole_centers, pt_u_centers, cs_holes>>
fins == <<heatsink_cut_l, heatsink_cut_w, fin_number, fin_t, fin_l>>
outputs == <<solids, assembly, shown, files>>
vars == <<params, env, build_dir, pc, defined, error, grid, fins, cutout,
          warnings, imports, outputs>>

led_array_rows == led_array_cols

\* the statements of the script, in order
Script ==
    << "startup", "led_grid", "load_extrusion", "load_bracket",
       "load_bracket_screw", "pt_holes", "cs_holes", "load_cs_screw", "fins",
       "load_water_port", "build", "place_water_ports", "place_brackets",
       "place_bracket_screws", "place_extrusions", "place_cs_screws",
       "export" >>

\* its arithmetic and its own solids alone, followed by a call of
\* heatsink_cutout with any fin number
Arithmetic ==
    << "led_grid", "pt_holes", "cs_holes", "fins", "build", "cutout_call" >>

MaxCols == 3
MaxFinArg == 5
RunMaxCols == 2

ParamSizes ==
    {FInt(30), FInt(64), FLit(775, 10), FLit(7764, 100), FInt(100), FInt(118),
     FInt(350)}
ParamGaps == {FInt(0), FInt(3), FInt(10)}
ParamApprox == {FInt(0), FInt(4)}
RunSizes == {FLit(775, 10), FLit(7764, 100), FInt(350)}

InitComputed ==
    /\ pc = 1
    /\ defined = {}
    /\ error = "none"
    /\ led_x = << >> /\ led_y = << >>
    /\ pt_hole_centers = << >> /\ pt_u_centers = << >> /\ cs_holes = << >>
    /\ heatsink_cut_l = FZero /\ heatsink_cut_w = FZero
    /\ fin_number = 0 /\ fin_t = FZero /\ fin_l = FZero
    /\ cutout = NoCutout
    /\ warnings = << >> /\ imports = << >>
    /\ solids = << >> /\ assembly = << >> /\ shown = << >> /\ files = << >>

\* a run of the whole script
Init ==
    /\ block_l \in RunSizes
    /\ block_w = block_l
    /\ led_array_cols \in 1..RunMaxCols
    /\ fin_gap = FInt(10)
    /\ approx_fin_t = FInt(4)
    /\ build_dir \in {"absent", "dir", "file"}
    /\ ref_dir \in BOOLEAN
    /\ show_object \in BOOLEAN
    /\ script = Script
    /\ InitComputed

\* the arithmetic over a wider range of parameters
InitParams ==
    /\ block_l \in ParamSizes
    /\ block_w \in ParamSizes
    /\ led_array_cols \in 1..MaxCols
    /\ fin_gap \in ParamGaps
    /\ approx_fin_t \in ParamApprox
    /\ build_dir = "dir"
    /\ ref_dir = FALSE
    /\ show_object = FALSE
    /\ script = Arithmetic
    /\ InitComputed

\* the next statement is stmt, no exception having ended the run
At(stmt) == error = "none" /\ pc <= Len(script) /\ script[pc] = stmt

Finished == error = "none" /\ pc > Len(script)

\* the statement has run: to its end, or to the exception that ended the run
Ran(stmt) ==
    \E i \in 1..Len(script) :
        script[i] = stmt /\ (i < pc \/ (i = pc /\ error # "none"))

Raise(e) == error' = e /\ pc' = pc

Advance == error' = error /\ pc' = pc + 1


(***************************************************************************)
(* Start-up: the build folder and the reference folder.                    *)
(***************************************************************************)
RefDirWarning == "Reference directory not found - cannot import step files."

\* start-up without the mkdir
Startup_without_mkdir ==
    /\ At("startup")
    /\ build_dir' = build_dir
    /\ Advance
    /\ warnings' = IF ref_dir THEN warnings ELSE Append(warnings, RefDirWarning)
    /\ UNCHANGED <<params, env, defined, grid, fins, cutout, imports, outputs>>

Startup ==
    /\ At("startup")
    /\ IF build_dir = "dir"
       THEN /\ build_dir' = build_dir
            /\ Advance
            /\ warnings' = IF ref_dir THEN warnings ELSE Append(warnings, RefDirWarning)
       ELSE IF build_dir = "absent"
       THEN /\ build_dir' = "dir"
            /\ Advance
            /\ warnings' = IF ref_dir THEN warnings ELSE Append(warnings, RefDirWarning)
       ELSE \* mkdir on a path that exists and is no directory
            /\ build_dir' = build_dir
            /\ Raise("FileExistsError")
            /\ warnings' = warnings
    /\ UNCHANGED <<params, env, defined, grid, fins, cutout, imports, outputs>>

(***************************************************************************)
(* Parameter arithmetic.                                                   *)
(***************************************************************************)
LedGrid ==
    /\ At("led_grid")
    /\ led_x' = led_screw_centers_along_x_axis(block_l, led_array_cols)
    /\ led_y' = led_screw_centers_along_y_axis(block_w, led_array_rows)
    /\ Advance
    /\ UNCHANGED <<params, env, build_dir, defined, pt_hole_centers, pt_u_centers,
                   cs_holes, fins, cutout, warnings, imports, outputs>>

PtHoles ==
    /\ At("pt_holes")
    /\ pt_hole_centers' =
         pt_x_centers_along_top(block_l, block_w, led_array_cols, pt_hole_dy)
           \o pt_x_centers_along_bottom(block_l, block_w, led_array_cols, pt_hole_dy)
    /\ pt_u_centers' =
         pt_x_centers_along_top(block_l, block_w, led_array_cols, pt_u_dy)
           \o pt_x_centers_along_bottom(block_l, block_w, led_array_cols, pt_u_dy)
    /\ Advance
    /\ UNCHANGED <<params, env, build_dir, defined, led_x, led_y, cs_holes, fins,
                   cutout, warnings, imports, outputs>>

CsHoles ==
    /\ At("cs_holes")
    /\ cs_holes' = cs_holes_of(block_l, block_w, led_array_cols, led_array_rows)
    /\ Advance
    /\ UNCHANGED <<params, env, build_dir, defined, led_x, led_y, pt_hole_centers,
                   pt_u_centers, fins, cutout, warnings, imports, outputs>>

\* lines 237-265: the names assigned and the exception raised, if any
AssignFins(r) ==
    /\ heatsink_cut_l' = r.cut_l
    /\ heatsink_cut_w' = r.cut_w
    /\ fin_number' = r.fin_number
    /\ fin_t' = r.fin_t
    /\ fin_l' = r.fin_l
    /\ defined' = defined \cup r.assigned
    /\ IF r.error = "none" THEN Advance ELSE Raise(r.error)

Fins ==
    /\ At("fins")
    /\ AssignFins(fin_statements(block_l, block_w, fin_gap, approx_fin_t))
    /\ UNCHANGED <<params, env, build_dir, grid, cutout, warnings, imports, outputs>>

\* heatsink_cutout applied to any fin number, with the script's gap and thickness
CutoutCall ==
    /\ At("cutout_call")
    /\ \E n \in -MaxFinArg..MaxFinArg :
         /\ cutout' = heatsink_cutout(fin_gap, fin_t, n)
         /\ IF cutout'.raised THEN Raise("ValueError: fin number") ELSE Advance
    /\ UNCHANGED <<params, env, build_dir, defined, grid, fins, warnings, imports,
                   outputs>>


(***************************************************************************)
(* Loading a reference STEP file: if ref_dir.is_dir(): try: ... except:    *)
(* warn.  The block's statements are an import that assigns the name,      *)
(* then rotations that reassign it, then (water port) the height.  Any of  *)
(* them can raise; k is the number of them that ran before that.           *)
(***************************************************************************)
\* the load block without its "if ref_dir.is_dir()" test
Load_without_dir_test(name, file, statements, warning) ==
    \E k \in 0..statements :
      /\ imports' = Append(imports, file)
      /\ defined' = defined
           \cup (IF k >= 1 THEN {name} ELSE {})
           \cup (IF name = "water_port" /\ k = statements
                 THEN {"water_port_h"} ELSE {})
      /\ warnings' = IF k < statements THEN Append(warnings, warning)
                     ELSE warnings

Load(name, file, statements, warning) ==
    IF ref_dir
    THEN \E k \in 0..statements :
           /\ imports' = Append(imports, file)
           /\ defined' = defined
                \cup (IF k >= 1 THEN {name} ELSE {})
                \cup (IF name = "water_port" /\ k = statements
                      THEN {"water_port_h"} ELSE {})
           /\ warnings' = IF k < statements THEN Append(warnings, warning)
                          ELSE warnings
    ELSE UNCHANGED <<imports, defined, warnings>>

ExtrusionWarning == "Couldn't load extrusion step file."
BracketWarning == "Couldn't load bracket step file."
BracketScrewWarning == "Couldn't load bracket screw step file."
CsScrewWarning == "Couldn't load cs screw step file."
WaterPortWarning == "Couldn't load water port step file."

LoadExtrusion ==
    /\ At("load_extrusion")
    /\ Load("extrusion", "Al-extrusion-270mm.step", 2, ExtrusionWarning)
    /\ Advance
    /\ UNCHANGED <<params, env, build_dir, grid, fins, cutout, outputs>>

LoadBracket ==
    /\ At("load_bracket")
    /\ Load("bracket", "black-angle-corner-connector.step", 2, BracketWarning)
    /\ Advance
    /\ UNCHANGED <<params, env, build_dir, grid, fins, cutout, outputs>>

LoadBracketScrew ==
    /\ At("load_bracket_screw")
    /\ Load("bracket_screw", "freecad-hex-head-screw-M5x25.step", 1,
            BracketScrewWarning)
    /\ Advance
    /\ UNCHANGED <<params, env, build_dir, grid, fins, cutout, outputs>>

LoadCsScrew ==
    /\ At("load_cs_screw")
    /\ Load("cs_screw", "freecad-countersink-screw-M5x25.step", 1, CsScrewWarning)
    /\ Advance
    /\ UNCHANGED <<params, env, build_dir, grid, fins, cutout, outputs>>

LoadWaterPort ==
    /\ At("load_water_port")
    /\ Load("water_port", "KQ2L12-G04A.stp", 4, WaterPortWarning)
    /\ Advance
    /\ UNCHANGED <<params, env, build_dir, grid, fins, cutout, outputs>>

(***************************************************************************)
(* Building the script's own solids (lines 757-774).  The kernel is taken  *)
(* to succeed on them; heatsink_cutout's guard is the one raise.           *)
(***************************************************************************)
Copies(n, part) == [i \in 1..n |-> part]

window_screw_hole_count == 4

Build ==
    /\ At("build")
    /\ cutout' = heatsink_cutout(fin_gap, fin_t, fin_number)
    /\ IF cutout'.raised
       THEN /\ Raise("ValueError: fin number")
            /\ UNCHANGED <<solids, assembly>>
       ELSE /\ Advance
            /\ solids' = <<"cut", "oring", "cooling_block", "block_lid", "pcb_window">>
                           \o Copies(window_screw_hole_count, "spacer")
            /\ assembly' = <<"cooling_block", "block_lid", "pcb_window">>
                             \o Copies(window_screw_hole_count, "spacer")
    /\ UNCHANGED <<params, env, build_dir, defined, grid, fins, warnings, imports,
                   shown, files>>

(***************************************************************************)
(* Placing reference hardware: try: ... except: pass.  A block fails on    *)
(* the NameError of a name no load assigned, or on one of its kernel       *)
(* calls; k is the number of kernel calls that succeeded.                  *)
(***************************************************************************)
\* the placement without its try/except: the NameError of a missing name
\* ends the run
PlaceAll_uncaught(name, calls, copies) ==
    IF name \in defined
    THEN /\ \E k \in 0..calls :
              assembly' = IF k = calls THEN assembly \o Copies(copies, name)
                          ELSE assembly
         /\ Advance
    ELSE assembly' = assembly /\ Raise("NameError")

\* all translations and rotations first, then every assembly.extend
PlaceAll(name, calls, copies) ==
    /\ IF name \in defined
       THEN \E k \in 0..calls :
              assembly' = IF k = calls THEN assembly \o Copies(copies, name)
                          ELSE assembly
       ELSE assembly' = assembly
    /\ Advance

\* for x, y in cs_holes: translate, then assembly.extend
PlaceEach(name, holes) ==
    /\ IF name \in defined
       THEN \E k \in 0..Len(holes) : assembly' = assembly \o Copies(k, name)
       ELSE assembly' = assembly
    /\ Advance

PlaceWaterPorts ==
    /\ At("place_water_ports")
    /\ PlaceAll("water_port", 2, 2)
    /\ UNCHANGED <<params, env, build_dir, defined, grid, fins, cutout, warnings,
                   imports, solids, shown, files>>

PlaceBrackets ==
    /\ At("place_brackets")
    /\ PlaceAll("bracket", 6, 4)
    /\ UNCHANGED <<params, env, build_dir, defined, grid, fins, cutout, warnings,
                   imports, solids, shown, files>>

PlaceBracketScrews ==
    /\ At("place_bracket_screws")
    /\ PlaceAll("bracket_screw", 4, 4)
    /\ UNCHANGED <<params, env, build_dir, defined, grid, fins, cutout, warnings,
                   imports, solids, shown, files>>

PlaceExtrusions ==
    /\ At("place_extrusions")
    /\ PlaceAll("extrusion", 3, 2)
    /\ UNCHANGED <<params, env, build_dir, defined, grid, fins, cutout, warnings,
                   imports, solids, shown, files>>

PlaceCsScrews ==
    /\ At("place_cs_screws")
    /\ PlaceEach("cs_screw", cs_holes)
    /\ UNCHANGED <<params, env, build_dir, defined, grid, fins, cutout, warnings,
                   imports, solids, shown, files>>

(***************************************************************************)
(* The end of the script: show in the editor, or export STEP files.        *)
(***************************************************************************)
\* open(build_dir.joinpath(name), "w") for each of the three
StepFiles ==
    << [dir |-> "build", name |-> "assembly.step"],
       [dir |-> "build", name |-> "block.step"],
       [dir |-> "build", name |-> "lid.step"] >>

\* the end of the script with the export outside the else branch
Export_always_writing ==
    /\ At("export")
    /\ shown' = IF show_object THEN assembly ELSE shown
    /\ files' = StepFiles
    /\ Advance
    /\ UNCHANGED <<params, env, build_dir, defined, grid, fins, cutout, warnings,
                   imports, solids, assembly>>

Export ==
    /\ At("export")
    /\ IF show_object
       THEN /\ shown' = assembly
            /\ files' = files
            /\ Advance
       ELSE IF build_dir = "dir"
       THEN /\ files' = StepFiles
            /\ shown' = shown
            /\ Advance
       ELSE /\ Raise("FileNotFoundError")
            /\ UNCHANGED <<shown, files>>
    /\ UNCHANGED <<params, env, build_dir, defined, grid, fins, cutout, warnings,
                   imports, solids, assembly>>

Next ==
    \/ Startup
    \/ LedGrid
    \/ LoadExtrusion
    \/ LoadBracket
    \/ LoadBracketScrew
    \/ PtHoles
    \/ CsHoles
    \/ LoadCsScrew
    \/ Fins
    \/ LoadWaterPort
    \/ Build
    \/ PlaceWaterPorts
    \/ PlaceBrackets
    \/ PlaceBracketScrews
    \/ PlaceExtrusions
    \/ PlaceCsScrews
    \/ Export

NextParams ==
    \/ LedGrid
    \/ PtHoles
    \/ CsHoles
    \/ Fins
    \/ Build
    \/ CutoutCall

Spec == Init /\ [][Next]_vars

\* the script has neither ended nor raised
Running == error = "none" /\ pc <= Len(script)

\* the interpreter goes on to the next statement
NextStatement == Running /\ pc' = pc + 1

\* A running script does not wait: the interpreter executes the statement at
\* pc, which ends by moving on or by raising.  (Under Spec this is weak
\* fairness of Next, stated on the program counter alone.)
FairSpec == Spec /\ WF_pc(NextStatement)

SpecParams == InitParams /\ [][NextParams]_vars

(***************************************************************************)
(* Properties.                                                             *)
(***************************************************************************)
One == FInt(1)

Even(n) == \E k \in -MaxFinArg..MaxFinArg : n = 2 * k

ThicknessError == "ValueError: fin thickness"

\* C1: once fin_t is computed, the run has ended in the fin-thickness
\* ValueError exactly when fin_t is not strictly greater than 1, fin_t = 1
\* included.
C1_RejectsUnlessAboveOne ==
    "fin_t" \in defined => ((error = ThicknessError) <=> ~FLt(One, fin_t))

\* C2: a call of heatsink_cutout raises its ValueError exactly when
\* fin_number is even (zero and negative even numbers included), and when it
\* raises it has made no kernel call.
C2_EvenFinNumberRaisesFirst ==
    (Ran("cutout_call") /\ cutout.called) =>
        /\ cutout.raised <=> Even(cutout.fin_number)
        /\ cutout.raised => cutout.kernel_calls = 0 /\ error = "ValueError: fin number"
        /\ ~cutout.raised => cutout.kernel_calls > 0 /\ error = "none"

C2_Witness ==
    /\ Ran("cutout_call")
    /\ cutout.raised
    /\ cutout.fin_number < 0
    /\ error = "ValueError: fin number"

\* C3: the fin_number the script passes to heatsink_cutout is odd, whatever
\* the parameters, so that call never raises "Fin number must be odd".
C3_ScriptPassesOddFinNumber ==
    (Ran("build") /\ ~Ran("cutout_call")) =>
        /\ cutout.called
        /\ cutout.fin_number = fin_number
        /\ cutout.fin_number % 2 = 1
        /\ ~cutout.raised
        /\ error = "none"

\* the estimate was even (here: zero or negative too) and was adjusted
C3_Witness ==
    /\ Ran("build") /\ ~Ran("cutout_call")
    /\ cutout.called
    /\ fin_number = fin_number_estimate(heatsink_cut_w, fin_gap, approx_fin_t) + 1
    /\ fin_number < 0

InSeq(x, q) == \E i \in 1..Len(q) : q[i] = x

LoadWarning ==
    [extrusion |-> ExtrusionWarning, bracket |-> BracketWarning,
     bracket_screw |-> BracketScrewWarning, cs_screw |-> CsScrewWarning,
     water_port |-> WaterPortWarning]

ReferenceParts == DOMAIN LoadWarning

\* C4: for each of the five reference parts, a run in which its load block
\* warned "Couldn't load ..." ends with no instance of the part in the
\* assembly.
C4_WarnedPartIsAbsent ==
    Finished =>
        \A part \in ReferenceParts :
            InSeq(LoadWarning[part], warnings) => ~InSeq(part, assembly)

PassedValidation == Ran("fins") /\ error = "none"

\* C5: whatever reference files load or fail, and with ref/ present or
\* absent, a run that has passed validation and has no show_object goes on
\* to the export and writes the three STEP files.
C5_LoadFailureNeverAborts ==
    (PassedValidation /\ ~show_object) ~> (Finished /\ files = StepFiles)

\* every load warned, and the files are written
C5_Witness ==
    /\ Finished
    /\ files = StepFiles
    /\ \A part \in ReferenceParts : InSeq(LoadWarning[part], warnings)

OwnParts ==
    <<"cooling_block", "block_lid", "pcb_window", "spacer", "spacer", "spacer",
      "spacer">>

\* C6: without ref/, a run past start-up has emitted the one warning
\* "Reference directory not found", attempts no import, and its final
\* assembly is the block, the lid, the window and the four spacers only.
C6_NoRefDirNoReferenceHardware ==
    (~ref_dir /\ Ran("startup") /\ error # "FileExistsError") =>
        /\ warnings = <<RefDirWarning>>
        /\ imports = << >>
        /\ Finished => assembly = OwnParts

C6_Witness == ~ref_dir /\ Finished /\ assembly = OwnParts

\* C7: build/ is a directory once start-up is over (created when missing,
\* kept when there); the files are written in one step, into build/, with
\* build/ there; and a run that ends without show_object has written
\* exactly assembly.step, block.step and lid.step.
C7_ThreeFilesInsideBuild ==
    [][ /\ (At("startup") /\ build_dir # "file") => build_dir' = "dir"
        /\ build_dir = "dir" => build_dir' = "dir"
        /\ files' # files =>
             /\ build_dir = "dir"
             /\ files = << >>
             /\ \A i \in 1..Len(files') : files'[i].dir = "build"
        /\ (Finished' /\ ~show_object) =>
             /\ Len(files') = 3
             /\ {files'[i].name : i \in 1..3}
                  = {"assembly.step", "block.step", "lid.step"}
      ]_vars

C7_Witness == Finished /\ ~show_object /\ Len(files) = 3 /\ build_dir = "dir"

\* C10: a run whose fin thickness is below 1 is ended by the fin-thickness
\* ValueError, and has then built no solid, made no call of heatsink_cutout,
\* assembled, shown and written nothing, and runs no further statement;
\* build/ is there.
C10_ThicknessErrorBuildsNothing ==
    ("fin_t" \in defined /\ FLt(fin_t, One)) =>
        /\ error = ThicknessError
        /\ solids = << >>
        /\ ~cutout.called
        /\ assembly = << >> /\ shown = << >> /\ files = << >>
        /\ build_dir = "dir"
        /\ ~ENABLED Next

\* reference files were imported before the guard raised
C10_Witness == error = ThicknessError /\ imports # << >> /\ script = Script

(***************************************************************************)
(* Exact arithmetic on the values of floats, to compare coordinates.       *)
(***************************************************************************)
ExactAddAt(x, y, e0) ==
    Canon(SumNeg(x.neg, y.neg, BShl(x.m, x.e - e0), BShl(y.m, y.e - e0)),
          SumMag(x.neg, y.neg, BShl(x.m, x.e - e0), BShl(y.m, y.e - e0)),
          e0)

\* x - y, not rounded
ExactSub(x, y) == ExactAddAt(x, FNeg(y), MinInt(x.e, y.e))

\* |x - y| <= tol
Within(x, y, tol) == ~ExactSub(tol, FAbs(ExactSub(x, y))).neg

\* the rounding error allowed to a coordinate of a block of this size:
\* size * 2^-50
Tol(size) == [neg |-> FALSE, m |-> size.m, e |-> size.e - 50]

ExactlySpaced(q, f) == \A i \in 1..(Len(q) - 1) : ExactSub(q[i + 1], q[i]) = f

SymmetricSet(q) ==
    {FNeg(q[i]) : i \in 1..Len(q)} = {q[i] : i \in 1..Len(q)}

Spaced(q, f, tol) ==
    \A i \in 1..(Len(q) - 1) : Within(ExactSub(q[i + 1], q[i]), f, tol)

Mirrored(q, tol) ==
    \A i \in 1..Len(q) : Within(q[i], FNeg(q[Len(q) + 1 - i]), tol)

Mirror(p) == <<FNeg(p[1]), FNeg(p[2])>>

\* the second half of q is the first half reflected in the origin
PointSymmetric(q, cols) ==
    {q[i] : i \in (cols + 1)..(2 * cols)} = {Mirror(q[i]) : i \in 1..cols}

PointSymmetricWithin(q, cols, tol) ==
    \A i \in 1..cols :
        /\ q[2 * cols + 1 - i][2] = FNeg(q[i][2])
        /\ Within(q[2 * cols + 1 - i][1], FNeg(q[i][1]), tol)

\* every top point has the top y and every bottom point its negative
InRows(q, cols) ==
    \A i \in 1..cols : q[i][2] = q[1][2] /\ q[cols + i][2] = FNeg(q[1][2])

SameX(q, r) == Len(q) = Len(r) /\ \A i \in 1..Len(q) : q[i][1] = r[i][1]

C11_ShowOrExport ==
    /\ ~(shown # << >> /\ files # << >>)
    /\ Finished =>
         IF show_object
         THEN shown = assembly /\ assembly # << >> /\ files = << >>
         ELSE shown = << >> /\ files = StepFiles

\* shown in the editor, reference hardware included
C11_Witness ==
    /\ Finished
    /\ show_object
    /\ shown = assembly
    /\ InSeq("cs_screw", shown)
    /\ files = << >>

\* x * y, not rounded
ExactMul(x, y) ==
    IF x.m = << >> \/ y.m = << >> THEN FZero
    ELSE Canon(x.neg # y.neg, BMul(x.m, y.m), x.e + y.e)

AbsInt(n) == IF n < 0 THEN -n ELSE n

\* the rounding error allowed to the width of a cut: 2^-50 times
\* |heatsink_cut_w| + (|fin_number| + 1) * fin_gap, the size of the numbers
\* the width is computed from
WidthTol(w, n, gap) ==
    Tol(ExactAddAt(FAbs(w), ExactMul(FInt(AbsInt(n) + 1), FAbs(gap)),
                   MinInt(w.e, gap.e)))

CutMade == Ran("build") /\ ~Ran("cutout_call") /\ error = "none"

\* C12 as stated: for parameters that pass validation, the width computed
\* inside heatsink_cutout equals heatsink_cut_w.
C12_WidthExact == CutMade => cutout.width = heatsink_cut_w

\* C12: for parameters that pass validation, the width computed inside
\* heatsink_cutout, fin_number * (fin_gap + fin_t) + fin_gap, equals
\* heatsink_cut_w to within the rounding error of the floating-point
\* arithmetic, whether or not fin_number was increased by one.
C12_WidthWithinRounding ==
    CutMade =>
        /\ cutout.called /\ ~cutout.raised
        /\ Within(cutout.width, heatsink_cut_w,
                  WidthTol(heatsink_cut_w, fin_number, fin_gap))

\* an even estimate increased by one, and a width that rounding moved
C12_Witness ==
    /\ CutMade
    /\ fin_number = fin_number_estimate(heatsink_cut_w, fin_gap, approx_fin_t) + 1
    /\ fin_number > 1
    /\ cutout.width # heatsink_cut_w

\* C13: once the fin statements have run, heatsink_cut_l is oring_inner_l
\* less twice oring_inner_edge_gap and heatsink_cut_w is oring_inner_w less
\* twice oring_inner_edge_gap, block_l and block_w being equal or not.
C13_CutFollowsORing ==
    Ran("fins") =>
        /\ heatsink_cut_l
             = FSub(oring_inner(block_l), FInt(2 * oring_inner_edge_gap))
        /\ heatsink_cut_w
             = FSub(oring_inner(block_w), FInt(2 * oring_inner_edge_gap))

Count(part, q) == Cardinality({i \in 1..Len(q) : q[i] = part})

\* the instances of each part a complete placement adds
Instances ==
    [extrusion |-> 2, bracket |-> 4, bracket_screw |-> 4,
     cs_screw |-> Len(cs_holes), water_port |-> 2]

\* C14: the assembly of a finished run holds, of each kind of reference
\* hardware, either every instance (2 water ports, 4 brackets, 4 bracket
\* screws, 2 extrusions, one countersink screw per point of cs_holes) or
\* none.
C14_AllOrNothing ==
    Finished =>
        \A part \in ReferenceParts :
            Count(part, assembly) \in {0, Instances[part]}

PositiveStep == FLt(FZero, FAdd(approx_fin_t, fin_gap))

\* C15: with approx_fin_t + fin_gap > 0, once the fin statements have run
\* fin_number is odd, so not zero, fin_t has been computed by dividing by
\* it, and no ZeroDivisionError has ended the run: validation ended in the
\* fin-thickness ValueError or passed.
C15_FinNumberNeverZero ==
    (Ran("fins") /\ PositiveStep) =>
        /\ fin_number # 0
        /\ fin_number % 2 = 1
        /\ "fin_t" \in defined
        /\ error # "ZeroDivisionError"
        /\ ~Ran("build") => error \in {"none", ThicknessError}

\* int(...) gave zero and the adjustment made it one
C15_Witness ==
    /\ Ran("fins")
    /\ PositiveStep
    /\ fin_number_estimate(heatsink_cut_w, fin_gap, approx_fin_t) = 0
    /\ fin_number = 1
    /\ "fin_t" \in defined
====
